---- MODULE Spec2Model ----
(***************************************************************************)
(* Model of the ioBroker adapter uvr16xx-blnet (src/main.js): the polling  *)
(* timer of startPolling, the probe (readSystemConfiguration,              *)
(* readDeviceInfo), the retrying block fetch (fetchDataBlockFromDevice),   *)
(* the current-data fetch (fetchStateValuesFromDevice) and the decoding of *)
(* the input words.                                                        *)
(*                                                                         *)
(* Every run of the timer callback is an async function: it gives up       *)
(* control at each await, and setInterval starts the next run whether or   *)
(* not the earlier one has finished.  A run is modelled as a slot of       *)
(* `tick` whose pc names the await it is suspended at; one action is the   *)
(* code that runs from the completion of that await to the next await.     *)
(***************************************************************************)
EXTENDS Integers, Naturals, Sequences, FiniteSets, TLC

\* ------------------------------------------------------------------ bounds

\* Timer callbacks that may be in flight (not yet finished) at the same time.
MaxTicks == 2

\* Longest header block the device model answers a HEADER read with.
MaxHeaderLen == 22

\* ---------------------------------------------------------- bit arithmetic
\* JavaScript's bitwise operators on the non-negative values the code uses.

RECURSIVE BitAnd(_, _)
BitAnd(a, b) ==
    IF a = 0 \/ b = 0 THEN 0
    ELSE (a % 2) * (b % 2) + 2 * BitAnd(a \div 2, b \div 2)

RECURSIVE BitOr(_, _)
BitOr(a, b) ==
    IF a = 0 THEN b
    ELSE IF b = 0 THEN a
    ELSE (IF (a % 2) + (b % 2) > 0 THEN 1 ELSE 0) + 2 * BitOr(a \div 2, b \div 2)

\* ~x & 0xFFFF : every one of the low 16 bits flipped
RECURSIVE BitNot16From(_, _)
BitNot16From(x, n) ==
    IF n = 0 THEN 0
    ELSE (1 - (x % 2)) + 2 * BitNot16From(x \div 2, n - 1)

BitNot16(x) == BitNot16From(x, 16)

ShiftRight8(x) == x \div 256

\* byte2short with the low byte masked as a signed char would be
byte2short_lowmask(lo, hi) == BitOr(hi * 256, BitAnd(lo, 127))

\* byte2short(lo, hi) { return (hi << 8) | (lo & 0xFF); }
byte2short(lo, hi) == BitOr(hi * 256, BitAnd(lo, 255))

\* ------------------------------------------------------------- the protocol

VERSION_REQUEST == 129
HEADER_READ == 170
FIRMWARE_REQUEST == 130
MODE_REQUEST == 33
READ_CURRENT_DATA == 171

KOPFSATZ_D1_LENGTH == 14
KOPFSATZ_A8_LENGTH == 13
KOPFSATZ_DC_LENGTH == 21

HEADER_D1_DEVICE1_LENGTH_OFFSET == 5
HEADER_D1_DEVICE2_LENGTH_OFFSET == 6
HEADER_A8_DEVICE1_LENGTH_OFFSET == 5

\* length handed to readBlock by fetchStateValuesFromDevice
RecordLength == 57

\* first byte of a current-data block
CurrentDataTag == 128

\* An object-valued variable JavaScript leaves undefined.
Undefined == [kind |-> "undefined"]

\* The value null, and the empty object {}.
Null == [kind |-> "null"]
EmptyObject == [kind |-> "object"]

\* A string-valued property JavaScript leaves undefined.
UndefinedString == "undefined"

\* A received Buffer, reduced to what the code reads of it: its length, the
\* bytes at offsets 0, 5 and 6, and the 16-bit word of input S01 (bytes 1-2).
Buf(len, b0, b5, b6, in1) ==
    [kind |-> "data", len |-> len, b0 |-> b0, b5 |-> b5, b6 |-> b6, in1 |-> in1]

\* sendCommand rejecting: socket error, or close before any data.
TransportError == [kind |-> "error"]

\* data[i] of a Buffer.  Past the end JavaScript gives undefined, which
\* equals no byte: it is modelled as a value outside 0..255.
ByteAt(data, i) ==
    IF i >= data.len THEN 0 - 1
    ELSE IF i = 0 THEN data.b0
    ELSE IF i = 5 THEN data.b5
    ELSE IF i = 6 THEN data.b6
    ELSE 0

\* ------------------------------------------------- fetchDataBlockFromDevice

\* maxRetries if the loop ran while (attempt <= maxRetries)
maxRetries_six == 5 + 1

\* const maxRetries = 5
maxRetries == 5

\* if (data && data.length > 1)
Accepted(data) == data.kind = "data" /\ data.len > 1

\* One pass of the while loop of attemptFetch, entered with `attempt` sends
\* done: attempt++, the awaited sendCommand settles with `outcome`, and the
\* promise is resolved, rejected or left pending for the next pass.
AttemptFetch(attempt, outcome) ==
    LET n == attempt + 1 IN
    IF Accepted(outcome)
    THEN [attempt |-> n, state |-> "resolved", data |-> outcome]
    ELSE IF n >= maxRetries
    THEN [attempt |-> n, state |-> "rejected", data |-> Undefined]
    ELSE [attempt |-> n, state |-> "pending", data |-> Undefined]

\* while (attempt < maxRetries)
LoopRuns(attempt) == attempt < maxRetries

\* ----------------------------------------------- fetchStateValuesFromDevice

\* readBlock(data, length): the first `length` bytes, or null
readBlock(data, length) ==
    IF data.len >= length
    THEN [data EXCEPT !.len = length]
    ELSE Null

\* parseUvrRecord, reduced to the input S01 of the record
parseUvrRecord(response) == [inputs |-> [S01 |-> response.in1]]

Return(v) == [kind |-> "return", value |-> v]
Throw(e) == [kind |-> "throw", error |-> e]

\* The try block of fetchStateValuesFromDevice, `fetched` being what the
\* awaited fetchDataBlockFromDevice settled with.
FetchStateValuesTry(fetched) ==
    IF fetched.state = "rejected"
    THEN Throw("Max retries reached. Unable to communicate with device.")
    ELSE IF ByteAt(fetched.data, 0) = CurrentDataTag
    THEN LET response == readBlock(fetched.data, RecordLength) IN
         IF response # Null
         THEN Return(parseUvrRecord(response))
         ELSE Throw("Invalid response from device")
    ELSE Throw("Unexpected data format")

\* fetchStateValuesFromDevice: its catch block logs the error and falls off
\* the end of the function, so the caller gets undefined, not the error.
fetchStateValuesFromDevice(fetched) ==
    LET body == FetchStateValuesTry(fetched) IN
    IF body.kind = "throw" THEN Return(Undefined) ELSE body

\* ------------------------------------------------------------ determineUnit

determineUnit(unitBits) ==
    CASE unitBits = 0 -> "unused"
      [] unitBits = 16 -> "digital"
      [] unitBits = 32 -> "C"
      [] unitBits = 48 -> "l/h"
      [] unitBits = 96 -> "W/m2"
      [] unitBits = 112 -> "C (room sensor)"
      [] OTHER -> "unknown"

\* A variant that keeps the sign bit in the unit code.
UnitOfWord_signmask(value) ==
    determineUnit(BitAnd(ShiftRight8(value), 240))

\* readSystemConfiguration, lines 171-180: the unit of an input word
UnitOfWord(value) == determineUnit(BitAnd(ShiftRight8(value), 112))

\* ------------------------------------------------- readDeviceInfo (header)

\* switch (uvr_type) / switch (uvr2_type)
TypeString(type) ==
    CASE type = 90 -> "UVR61-3"
      [] type = 118 -> "UVR1611"
      [] OTHER -> "Unknown"

\* switch (data.length) with the 1DL and 2DL lengths exchanged
UvrMode_swapped(data) ==
    CASE data.len = KOPFSATZ_A8_LENGTH ->
           [known |-> TRUE, uvr_mode |-> 209, uvr_mode_str |-> "2DL"]
      [] data.len = KOPFSATZ_D1_LENGTH ->
           [known |-> TRUE, uvr_mode |-> 168, uvr_mode_str |-> "1DL"]
      [] data.len = KOPFSATZ_DC_LENGTH ->
           [known |-> TRUE, uvr_mode |-> 220, uvr_mode_str |-> "CAN"]
      [] OTHER ->
           [known |-> FALSE, uvr_mode |-> 0, uvr_mode_str |-> UndefinedString]

\* switch (data.length): the mode, or the thrown "Unknown data length"
UvrMode(data) ==
    CASE data.len = KOPFSATZ_D1_LENGTH ->
           [known |-> TRUE, uvr_mode |-> 209, uvr_mode_str |-> "2DL"]
      [] data.len = KOPFSATZ_A8_LENGTH ->
           [known |-> TRUE, uvr_mode |-> 168, uvr_mode_str |-> "1DL"]
      [] data.len = KOPFSATZ_DC_LENGTH ->
           [known |-> TRUE, uvr_mode |-> 220, uvr_mode_str |-> "CAN"]
      [] OTHER ->
           [known |-> FALSE, uvr_mode |-> 0, uvr_mode_str |-> UndefinedString]

\* Lines 453-544 without the override of line 513 for CAN logging
ReadHeader_noCanOverride(data) ==
    LET m == UvrMode(data)
        uvr_type == IF m.uvr_mode = 209
                    THEN ByteAt(data, HEADER_D1_DEVICE1_LENGTH_OFFSET)
                    ELSE ByteAt(data, HEADER_A8_DEVICE1_LENGTH_OFFSET)
        uvr2_type == IF m.uvr_mode = 209
                     THEN <<ByteAt(data, HEADER_D1_DEVICE2_LENGTH_OFFSET)>>
                     ELSE <<>>
    IN  IF ~m.known
        THEN Throw("Unknown data length")
        ELSE Return([uvr_mode |-> m.uvr_mode_str,
                     uvr_type |-> TypeString(uvr_type),
                     uvr2_type |-> IF uvr2_type # <<>>
                                   THEN TypeString(uvr2_type[1])
                                   ELSE UndefinedString])

\* Lines 453-544 of readDeviceInfo: what the header block contributes to
\* the device info, or the error thrown for an unknown length.
ReadHeader(data) ==
    LET m == UvrMode(data)
        read1 == IF m.uvr_mode = 209
                 THEN ByteAt(data, HEADER_D1_DEVICE1_LENGTH_OFFSET)
                 ELSE ByteAt(data, HEADER_A8_DEVICE1_LENGTH_OFFSET)
        \* uvr2_type: <<>> while it is undefined, <<byte>> once assigned
        uvr2_type == IF m.uvr_mode = 209
                     THEN <<ByteAt(data, HEADER_D1_DEVICE2_LENGTH_OFFSET)>>
                     ELSE <<>>
        uvr_type == IF m.uvr_mode = 220 THEN 118 ELSE read1
    IN  IF ~m.known
        THEN Throw("Unknown data length")
        ELSE Return([uvr_mode |-> m.uvr_mode_str,
                     uvr_type |-> TypeString(uvr_type),
                     uvr2_type |-> IF uvr2_type # <<>>
                                   THEN TypeString(uvr2_type[1])
                                   ELSE UndefinedString])

\* data.readUInt8(0) throws a RangeError on an empty Buffer
ReadUInt8Throws(data) == data.len < 1

\* switch (transmission_mode)
TransmissionModeString(mode) ==
    IF mode = 128 THEN "Current Data" ELSE "Unknown"

\* ------------------------------------- startPolling, lines 92-113 (inputs)

\* A variant that takes the room sensor for tenths of a degree as well.
DecodeInput_roomScaled(subValue) ==
    LET highByte == ShiftRight8(subValue)
        lowByte == BitAnd(subValue, 255)
        signBit == BitAnd(highByte, 128)
        unitBits == BitAnd(highByte, 112)
        input0 == byte2short(lowByte, BitAnd(highByte, 15))
        plus1 == BitAnd(BitNot16(BitOr(input0, 61440)) + 1, 65535)
        input == IF signBit # 0 THEN 0 - plus1 ELSE input0
    IN  [val |-> input,
         div |-> IF unitBits \in {32, 112} THEN 10 ELSE 1,
         unit |-> determineUnit(unitBits)]

\* The value published for an input word: [val |-> n, div |-> d] stands
\* for the number n / d.
DecodeInput(subValue) ==
    LET highByte == ShiftRight8(subValue)
        lowByte == BitAnd(subValue, 255)
        signBit == BitAnd(highByte, 128)
        unitBits == BitAnd(highByte, 112)
        input0 == byte2short(lowByte, BitAnd(highByte, 15))
        ored == BitOr(input0, 61440)
        inverted == BitNot16(ored)
        plus1 == BitAnd(inverted + 1, 65535)
        input == IF signBit # 0 THEN 0 - plus1 ELSE input0
    IN  [val |-> input,
         div |-> IF unitBits = 32 THEN 10 ELSE 1,
         unit |-> determineUnit(unitBits)]

\* ------------------------------------- parseUvrRecord on a whole record
\* `response` is the 57-byte record as a function from offsets to bytes.

\* byte2int(lo_lo, lo_hi, hi_lo, hi_hi) {
\*   return (byte2short(lo_lo, lo_hi) & 0xFFFF) | (byte2short(hi_lo, hi_hi) << 16); }
\* as the signed 32-bit integer the operator | yields.
byte2int(lo_lo, lo_hi, hi_lo, hi_hi) ==
    LET low == BitAnd(byte2short(lo_lo, lo_hi), 65535)
        high == byte2short(hi_lo, hi_hi) % 65536
        signedHigh == IF high >= 32768 THEN high - 65536 ELSE high
    IN  signedHigh * 65536 + low

\* The numbers of the energy counters, kept exact: [whole |-> w, num |-> n,
\* den |-> d] stands for w + n / d (n / d is not reduced and may exceed 1).
Whole(n) == [whole |-> n, num |-> 0, den |-> 1]
Over(a, k) ==
    [whole |-> a.whole \div k,
     num |-> (a.whole % k) * a.den + a.num,
     den |-> a.den * k]
Times(a, k) == [whole |-> a.whole * k, num |-> a.num * k, den |-> a.den]
Plus(a, b) ==
    [whole |-> a.whole + b.whole,
     num |-> a.num * b.den + b.num * a.den,
     den |-> a.den * b.den]
Minus(a, b) ==
    [whole |-> a.whole - b.whole,
     num |-> a.num * b.den - b.num * a.den,
     den |-> a.den * b.den]

\* A variant that has every mask one bit too high.
OutputMask_shifted(k) == 2 ^ k

\* The mask lines 731-743 test for output A<k>: 0x01, 0x02, ... 0x1000
OutputMask(k) == 2 ^ (k - 1)

\* (output & mask) ? "ON" : "OFF"
OutputState(output, k) ==
    IF BitAnd(output, OutputMask(k)) # 0 THEN "ON" ELSE "OFF"

\* A variant that has DzA1 and DzA2 the other way round.
speed_levels_swapped(response) ==
    [DzA1 |-> response[36], DzA2 |-> response[35],
     DzA6 |-> response[37], DzA7 |-> response[38]]

\* Lines 749-752.
speed_levels(response) ==
    [DzA1 |-> response[35], DzA2 |-> response[36],
     DzA6 |-> response[37], DzA7 |-> response[38]]

\* A variant that tests bit 0 for both counters.
WmzMask_bit0(k) == 1

\* The mask of counter k in the status byte: wmz & 0x1, wmz & 0x2
WmzMask(k) == k

\* A variant that tests bit 7 of the highest byte.
SignCheck_bit7(highHigh) == highHigh > 127

\* Lines 783 and 805: if (highHigh > 32767)
SignCheck(highHigh) == highHigh > 32767

\* A variant that counts the lowest byte into the magnitude.
current_heat_power_fourBytes(lowLow, lowHigh, highLow, highHigh) ==
    Over(Plus(Whole(10 * byte2int(lowLow, lowHigh, highLow, highHigh)),
              Over(Whole(lowLow * 10), 256)), 100)

\* Lines 779-785 and 801-807: the current power of an active counter.
current_heat_power(lowLow, lowHigh, highLow, highHigh) ==
    LET hundredths == Over(Whole(lowLow * 10), 256)
        power == Over(Plus(Whole(10 * byte2int(lowHigh, highLow, highHigh, 0)),
                           hundredths), 100)
    IN  IF SignCheck(highHigh)
        THEN Over(Minus(Whole(10 * (byte2int(lowHigh, highLow, highHigh, 0) - 65536)),
                        hundredths), 100)
        ELSE power

\* Lines 788-789 and 810-811: kWh / 10.0 + MWh * 1000.0
total_heat_energy(response, b) ==
    Plus(Over(Whole(byte2short(response[b + 4], response[b + 5])), 10),
         Times(Whole(byte2short(response[b + 6], response[b + 7])), 1000))

\* Lines 773-794 (k = 1, b = 40) and 796-816 (k = 2, b = 48); `negated`
\* records whether the branch of the sign check ran (history).
Counter(response, k, b) ==
    IF BitAnd(response[39], WmzMask(k)) # 0
    THEN [current_heat_power |->
              current_heat_power(response[b], response[b + 1],
                                 response[b + 2], response[b + 3]),
          total_heat_energy |-> total_heat_energy(response, b),
          negated |-> SignCheck(response[b + 3])]
    ELSE [current_heat_power |-> Whole(0), total_heat_energy |-> Whole(0),
          negated |-> FALSE]

\* parseUvrRecord, lines 719-821, every field of the record it returns.
uvrRecord(response) ==
    LET output == byte2short(response[33], response[34])
        wmz == response[39]
    IN  [outputs |-> [k \in 1..13 |-> OutputState(output, k)],
         speed_levels |-> speed_levels(response),
         inputs |-> [i \in 1..16 |->
                        byte2short(response[(i - 1) * 2 + 1],
                                   response[(i - 1) * 2 + 2])],
         thermal_energy_counters_status |->
             [k \in 1..2 |-> IF BitAnd(wmz, WmzMask(k)) # 0
                             THEN "active" ELSE "inactive"],
         thermal_energy_counters |->
             [k \in 1..2 |-> Counter(response, k, 40 + 8 * (k - 1))]]

\* ---------------------------------------------------------------- the state

VARIABLES
    initialized,      \* this.initialized
    pollingInterval,  \* this.pollingInterval: "unset", "armed" or "cleared"
    unloaded,         \* onUnload has been called: shutdown is requested
    tick,             \* the runs of the timer callback that are in flight
    objects,          \* the store's info.* states and declared input units
    inputs,           \* the store's state inputs.S01
    published,        \* the store's state info.connection as set last, with
                      \* the outcome of the exchange that preceded (history)
    ended,            \* history: the run of the callback that finished last
    fetch,            \* one call of fetchStateValuesFromDevice on its own
    header,           \* one header block and what readDeviceInfo makes of it
    decode,           \* one input word and the value published for it
    record,           \* one 57-byte record and what parseUvrRecord makes of it
    send              \* one call of sendCommand: its socket and its promise

orchVars == <<initialized, pollingInterval, unloaded, tick, objects, inputs,
              published, ended>>

callVars == <<fetch, header, decode, record, send>>

NoCall == [state |-> "none"]

Ticks == 1..MaxTicks

\* A slot of `tick` no run occupies.
IdleTick ==
    [pc |-> "idle", attempt |-> 0, deviceInfo |-> Undefined,
     systemConfiguration |-> Undefined, stateValues |-> Undefined,
     probe |-> "none", poll |-> "none", lastConn |-> "none"]

NoTickEnded == [probe |-> "none", poll |-> "none", lastConn |-> "none",
                initialized |-> FALSE]

\* What a finished run leaves in `ended`.
Summary(r, init) ==
    [probe |-> r.probe, poll |-> r.poll, lastConn |-> r.lastConn,
     initialized |-> init]

\* --------------------------------------------------------- the device model
\* The blocks the BL-NET may answer each command with, besides failing.

SampleWords == {8400, 45055}

VersionReplies == {TransportError, Buf(2, 1, 0, 0, 0)}

HeaderReplies ==
    {TransportError, Buf(1, 0, 0, 0, 0), Buf(MaxHeaderLen, 0, 0, 0, 0),
     Buf(KOPFSATZ_D1_LENGTH, 0, 118, 90, 0)}

FirmwareReplies == {TransportError, Buf(0, 0, 0, 0, 0), Buf(1, 212, 0, 0, 0)}

ModeReplies == {TransportError, Buf(1, 128, 0, 0, 0)}

CurrentDataReplies ==
    {TransportError, Buf(1, 128, 0, 0, 0), Buf(56, 128, 0, 0, 8400),
     Buf(57, 144, 0, 0, 8400), Buf(58, 128, 0, 0, 8400)}
    \cup {Buf(57, 128, 0, 0, w) : w \in SampleWords}

\* sendCommand(command): what the awaited call may settle with.
sendCommand(command) ==
    CASE command = VERSION_REQUEST -> VersionReplies
      [] command = HEADER_READ -> HeaderReplies
      [] command = FIRMWARE_REQUEST -> FirmwareReplies
      [] command = MODE_REQUEST -> ModeReplies
      [] command = READ_CURRENT_DATA -> CurrentDataReplies

\* ------------------------------------------------------------------ onReady

Init ==
    /\ initialized = FALSE
    /\ pollingInterval = "unset"
    /\ unloaded = FALSE
    /\ tick = [t \in Ticks |-> IdleTick]
    /\ objects = Undefined
    /\ inputs = Undefined
    /\ published = [value |-> "none", exchange |-> "none"]
    /\ ended = NoTickEnded
    /\ fetch = NoCall
    /\ header = NoCall
    /\ decode = NoCall
    /\ record = NoCall
    /\ send = NoCall

\* onReady: this.initialized = false; this.startPolling() arms the timer.
\* The adapter is made ready once, and not after it was told to unload.
onReady ==
    /\ pollingInterval = "unset"
    /\ ~unloaded
    /\ initialized' = FALSE
    /\ pollingInterval' = "armed"
    /\ UNCHANGED <<callVars, unloaded>>
    /\ UNCHANGED <<tick, objects, inputs, published, ended>>

\* A variant that leaves the timer running.
onUnload_keepsTimer ==
    /\ ~unloaded
    /\ unloaded' = TRUE
    /\ UNCHANGED pollingInterval
    /\ UNCHANGED callVars
    /\ UNCHANGED <<initialized, tick, objects, inputs, published, ended>>

\* onUnload, called once, with the timer armed or before onReady:
\* if (this.pollingInterval) clearInterval(this.pollingInterval)
onUnload ==
    /\ ~unloaded
    /\ unloaded' = TRUE
    /\ pollingInterval' = IF pollingInterval # "unset" THEN "cleared"
                          ELSE pollingInterval
    /\ UNCHANGED callVars
    /\ UNCHANGED <<initialized, tick, objects, inputs, published, ended>>

\* ------------------------------------------------------------ startPolling

\* The lowest slot no run occupies.
FreeSlot(t) ==
    /\ tick[t].pc = "idle"
    /\ \A u \in Ticks : u < t => tick[u].pc # "idle"

\* The object readSystemConfiguration returns from either catch block.
FailedConfiguration ==
    [success |-> FALSE, stateValues |-> EmptyObject, deviceInfo |-> EmptyObject,
     units |-> EmptyObject]

\* readSystemConfiguration if its second catch block kept the device info
\* already read
readSystemConfiguration_keepsInfo(deviceInfo, got) ==
    IF got.kind = "throw" \/ got.value = Undefined
    THEN [FailedConfiguration EXCEPT !.deviceInfo = deviceInfo]
    ELSE [success |-> TRUE,
          stateValues |-> got.value,
          deviceInfo |-> deviceInfo,
          units |-> [S01 |-> UnitOfWord(got.value.inputs.S01)]]

\* readSystemConfiguration, lines 166-197, `got` being what the awaited
\* fetchStateValuesFromDevice gave: an error thrown by it, or the TypeError
\* of reading .inputs of undefined, ends in the catch block.
readSystemConfiguration(deviceInfo, got) ==
    IF got.kind = "throw" \/ got.value = Undefined
    THEN FailedConfiguration
    ELSE [success |-> TRUE,
          stateValues |-> got.value,
          deviceInfo |-> deviceInfo,
          units |-> [S01 |-> UnitOfWord(got.value.inputs.S01)]]

\* The outcome of the exchange a run did last, as the device saw it.
LastExchange(r) == IF r.poll # "none" THEN r.poll ELSE r.probe

BoolString(b) == IF b THEN "true" ELSE "false"

\* await this.setState("info.connection", value, true) of run t completes.
Publish(t, value) ==
    published' = [value |-> value, exchange |-> LastExchange(tick[t])]

\* Run t of the callback returns; its slot is free again.
EndTick(t, r, init) ==
    /\ tick' = [tick EXCEPT ![t] = IdleTick]
    /\ ended' = Summary(r, init)

\* Line 80 reached by run r of slot t: it polls if this.initialized.
PollIfInitialized(t, r, init) ==
    IF init
    THEN /\ tick' = [tick EXCEPT ![t] =
                        [r EXCEPT !.pc = "poll", !.attempt = 0,
                                  !.systemConfiguration = Undefined]]
         /\ UNCHANGED ended
    ELSE EndTick(t, r, init)

\* readDeviceInfo threw, or the trial read failed: readSystemConfiguration
\* returns the failed configuration to line 61.
ProbeFailed(t) ==
    tick' = [tick EXCEPT ![t].pc = "setConnection",
                         ![t].probe = "fail",
                         ![t].deviceInfo = Undefined,
                         ![t].systemConfiguration = FailedConfiguration]

\* setInterval fires the callback (line 57): lines 59-61 or 80-82 up to the
\* first await.
TimerFires ==
    /\ pollingInterval = "armed"
    /\ \E t \in Ticks :
        /\ FreeSlot(t)
        /\ tick' = [tick EXCEPT ![t] =
                      [IdleTick EXCEPT !.pc = IF ~initialized THEN "version"
                                             ELSE "poll"]]
    /\ UNCHANGED <<callVars, unloaded>>
    /\ UNCHANGED <<initialized, pollingInterval, objects, inputs, published, ended>>

\* A variant that sends the VERSION request again when it failed.
VersionReply_retries(t) ==
    /\ tick[t].pc = "version"
    /\ \E r \in sendCommand(VERSION_REQUEST) :
        IF r.kind = "error"
        THEN IF tick[t].attempt + 1 < maxRetries
             THEN tick' = [tick EXCEPT ![t].attempt = @ + 1]
             ELSE ProbeFailed(t)
        ELSE tick' = [tick EXCEPT ![t].pc = "header", ![t].attempt = 0]
    /\ UNCHANGED <<callVars, unloaded>>
    /\ UNCHANGED <<initialized, pollingInterval, objects, inputs, published, ended>>

\* readDeviceInfo: sendCommand(VERSION_REQUEST) settles.
VersionReply(t) ==
    /\ tick[t].pc = "version"
    /\ \E r \in sendCommand(VERSION_REQUEST) :
        IF r.kind = "error"
        THEN ProbeFailed(t)
        ELSE tick' = [tick EXCEPT ![t].pc = "header", ![t].attempt = 0]
    /\ UNCHANGED <<callVars, unloaded>>
    /\ UNCHANGED <<initialized, pollingInterval, objects, inputs, published, ended>>

\* readDeviceInfo: one send of fetchDataBlockFromDevice(HEADER_READ) settles;
\* once the block is fetched, lines 453-544.
HeaderReply(t) ==
    /\ tick[t].pc = "header"
    /\ LoopRuns(tick[t].attempt)
    /\ \E r \in sendCommand(HEADER_READ) :
        LET f == AttemptFetch(tick[t].attempt, r) IN
        CASE f.state = "pending" ->
               tick' = [tick EXCEPT ![t].attempt = f.attempt]
          [] f.state = "rejected" -> ProbeFailed(t)
          [] f.state = "resolved" ->
               LET h == ReadHeader(f.data) IN
               IF h.kind = "throw"
               THEN ProbeFailed(t)
               ELSE tick' = [tick EXCEPT ![t].pc = "firmware",
                                         ![t].attempt = f.attempt,
                                         ![t].deviceInfo = h.value]
    /\ UNCHANGED <<callVars, unloaded>>
    /\ UNCHANGED <<initialized, pollingInterval, objects, inputs, published, ended>>

\* readDeviceInfo: sendCommand(FIRMWARE_REQUEST) settles, data.readUInt8(0).
FirmwareReply(t) ==
    /\ tick[t].pc = "firmware"
    /\ \E r \in sendCommand(FIRMWARE_REQUEST) :
        IF r.kind = "error" \/ ReadUInt8Throws(r)
        THEN ProbeFailed(t)
        ELSE tick' = [tick EXCEPT ![t].pc = "mode"]
    /\ UNCHANGED <<callVars, unloaded>>
    /\ UNCHANGED <<initialized, pollingInterval, objects, inputs, published, ended>>

\* readDeviceInfo: sendCommand(MODE_REQUEST) settles and the device info is
\* returned; readSystemConfiguration goes on to the trial read.
ModeReply(t) ==
    /\ tick[t].pc = "mode"
    /\ \E r \in sendCommand(MODE_REQUEST) :
        IF r.kind = "error" \/ ReadUInt8Throws(r)
        THEN ProbeFailed(t)
        ELSE tick' = [tick EXCEPT
                        ![t].pc = "trial",
                        ![t].attempt = 0,
                        ![t].deviceInfo =
                            [uvr_mode |-> tick[t].deviceInfo.uvr_mode,
                             uvr_type |-> tick[t].deviceInfo.uvr_type,
                             uvr2_type |-> tick[t].deviceInfo.uvr2_type,
                             transmission_mode |->
                                 TransmissionModeString(ByteAt(r, 0))]]
    /\ UNCHANGED <<callVars, unloaded>>
    /\ UNCHANGED <<initialized, pollingInterval, objects, inputs, published, ended>>

\* readSystemConfiguration: one send of the trial read settles; once the
\* fetch has settled, lines 167-197.
TrialReply(t) ==
    /\ tick[t].pc = "trial"
    /\ LoopRuns(tick[t].attempt)
    /\ \E r \in sendCommand(READ_CURRENT_DATA) :
        LET f == AttemptFetch(tick[t].attempt, r) IN
        IF f.state = "pending"
        THEN tick' = [tick EXCEPT ![t].attempt = f.attempt]
        ELSE LET c == readSystemConfiguration(tick[t].deviceInfo,
                                              fetchStateValuesFromDevice(f))
             IN  tick' = [tick EXCEPT
                            ![t].pc = "setConnection",
                            ![t].attempt = f.attempt,
                            ![t].probe = IF FetchStateValuesTry(f).kind = "return"
                                         THEN "ok" ELSE "fail",
                            ![t].deviceInfo = Undefined,
                            ![t].systemConfiguration = c]
    /\ UNCHANGED <<callVars, unloaded>>
    /\ UNCHANGED <<initialized, pollingInterval, objects, inputs, published, ended>>

\* Line 65 completes: info.connection is set to systemConfiguration.success.
\* A failed probe skips the declarations and reaches line 80.
SetConnection(t) ==
    /\ tick[t].pc = "setConnection"
    /\ LET value == BoolString(tick[t].systemConfiguration.success)
           r == [tick[t] EXCEPT !.lastConn = value]
       IN  /\ Publish(t, value)
           /\ IF tick[t].systemConfiguration.success
              THEN /\ tick' = [tick EXCEPT ![t] = [r EXCEPT !.pc = "declare"]]
                   /\ UNCHANGED ended
              ELSE PollIfInitialized(t, r, initialized)
    /\ UNCHANGED <<callVars, unloaded>>
    /\ UNCHANGED <<initialized, pollingInterval, objects, inputs>>

\* What declareObjects leaves in the store when every call succeeded: the
\* info.* states are set anew, the unit of an input object is written only
\* if the object does not exist yet (setObjectNotExistsAsync).  `times`
\* counts the declarations that ran to their end (history).
Declared(old, c) ==
    [deviceInfo |-> c.deviceInfo,
     units |-> IF old # Undefined /\ old.units # EmptyObject THEN old.units ELSE c.units,
     complete |-> TRUE,
     times |-> IF old # Undefined THEN old.times + 1 ELSE 1]

\* What it leaves when the store rejects a call after the info.* states
\* and before the input objects.
HalfDeclared(old, c) ==
    [deviceInfo |-> c.deviceInfo,
     units |-> IF old # Undefined THEN old.units ELSE EmptyObject,
     complete |-> old # Undefined /\ old.complete,
     times |-> IF old # Undefined THEN old.times ELSE 0]

\* A variant in which line 80 is an else branch: the run that initialised
\* returns without polling.
DeclareObjects_endsTick(t) ==
    /\ tick[t].pc = "declare"
    /\ \E storeOk \in BOOLEAN :
        IF storeOk
        THEN /\ objects' = Declared(objects, tick[t].systemConfiguration)
             /\ initialized' = TRUE
             /\ EndTick(t, tick[t], TRUE)
        ELSE /\ objects' = HalfDeclared(objects, tick[t].systemConfiguration)
             /\ initialized' = initialized
             /\ EndTick(t, tick[t], initialized)
    /\ UNCHANGED <<callVars, unloaded>>
    /\ UNCHANGED <<pollingInterval, inputs, published>>

\* Lines 68-77: declareObjects completes and this.initialized = true, then
\* line 80 starts the poll in the same run; or the store rejects one of the
\* calls and the catch block returns.
DeclareObjects(t) ==
    /\ tick[t].pc = "declare"
    /\ \E storeOk \in BOOLEAN :
        IF storeOk
        THEN /\ objects' = Declared(objects, tick[t].systemConfiguration)
             /\ initialized' = TRUE
             /\ PollIfInitialized(t, tick[t], TRUE)
        ELSE /\ objects' = HalfDeclared(objects, tick[t].systemConfiguration)
             /\ initialized' = initialized
             /\ EndTick(t, tick[t], initialized)
    /\ UNCHANGED <<callVars, unloaded>>
    /\ UNCHANGED <<pollingInterval, inputs, published>>

\* Line 82: one send of the poll's fetch settles; once the fetch has
\* settled, fetchStateValuesFromDevice returns to line 82 or throws to 136.
PollReply(t) ==
    /\ tick[t].pc = "poll"
    /\ LoopRuns(tick[t].attempt)
    /\ \E r \in sendCommand(READ_CURRENT_DATA) :
        LET f == AttemptFetch(tick[t].attempt, r) IN
        IF f.state = "pending"
        THEN tick' = [tick EXCEPT ![t].attempt = f.attempt]
        ELSE LET got == fetchStateValuesFromDevice(f) IN
             tick' = [tick EXCEPT
                        ![t].pc = IF got.kind = "throw"
                                  THEN "setConnectionFalse"
                                  ELSE "setConnectionTrue",
                        ![t].attempt = f.attempt,
                        ![t].poll = IF FetchStateValuesTry(f).kind = "return"
                                    THEN "ok" ELSE "fail",
                        ![t].stateValues = IF got.kind = "throw"
                                           THEN Undefined ELSE got.value]
    /\ UNCHANGED <<callVars, unloaded>>
    /\ UNCHANGED <<initialized, pollingInterval, objects, inputs, published, ended>>

\* Line 83 completes: info.connection is set to true.  Line 85 then throws
\* a TypeError if stateValues is undefined (Object.entries(undefined)).
SetConnectionTrue(t) ==
    /\ tick[t].pc = "setConnectionTrue"
    /\ Publish(t, "true")
    /\ tick' = [tick EXCEPT
                  ![t].lastConn = "true",
                  ![t].pc = IF tick[t].stateValues = Undefined
                            THEN "setConnectionFalse"
                            ELSE "publish"]
    /\ UNCHANGED <<callVars, unloaded>>
    /\ UNCHANGED <<initialized, pollingInterval, objects, inputs, ended>>

\* Lines 85-135: every value of the record is set in the store.
PublishRecord(t) ==
    /\ tick[t].pc = "publish"
    /\ inputs' = DecodeInput(tick[t].stateValues.inputs.S01)
    /\ EndTick(t, tick[t], initialized)
    /\ UNCHANGED <<callVars, unloaded>>
    /\ UNCHANGED <<initialized, pollingInterval, objects, published>>

\* The catch block of line 136 if it also wiped the published inputs
SetConnectionFalse_clearsInputs(t) ==
    /\ tick[t].pc = "setConnectionFalse"
    /\ Publish(t, "false")
    /\ inputs' = Undefined
    /\ EndTick(t, [tick[t] EXCEPT !.lastConn = "false"], initialized)
    /\ UNCHANGED <<callVars, unloaded>>
    /\ UNCHANGED <<initialized, pollingInterval, objects>>

\* The catch block of line 136 if it also stopped the timer
SetConnectionFalse_stopsTimer(t) ==
    /\ tick[t].pc = "setConnectionFalse"
    /\ Publish(t, "false")
    /\ pollingInterval' = "cleared"
    /\ EndTick(t, [tick[t] EXCEPT !.lastConn = "false"], initialized)
    /\ UNCHANGED <<callVars, unloaded>>
    /\ UNCHANGED <<initialized, objects, inputs>>

\* The catch block of line 136 if it also reset this.initialized
SetConnectionFalse_reprobes(t) ==
    /\ tick[t].pc = "setConnectionFalse"
    /\ Publish(t, "false")
    /\ initialized' = FALSE
    /\ EndTick(t, [tick[t] EXCEPT !.lastConn = "false"], FALSE)
    /\ UNCHANGED <<callVars, unloaded>>
    /\ UNCHANGED <<pollingInterval, objects, inputs>>

\* Line 137 completes: info.connection is set to false.
SetConnectionFalse(t) ==
    /\ tick[t].pc = "setConnectionFalse"
    /\ Publish(t, "false")
    /\ EndTick(t, [tick[t] EXCEPT !.lastConn = "false"], initialized)
    /\ UNCHANGED <<callVars, unloaded>>
    /\ UNCHANGED <<initialized, pollingInterval, objects, inputs>>

Next ==
    \/ onReady
    \/ onUnload
    \/ TimerFires
    \/ \E t \in Ticks : VersionReply(t)
    \/ \E t \in Ticks : HeaderReply(t)
    \/ \E t \in Ticks : FirmwareReply(t)
    \/ \E t \in Ticks : ModeReply(t)
    \/ \E t \in Ticks : TrialReply(t)
    \/ \E t \in Ticks : SetConnection(t)
    \/ \E t \in Ticks : DeclareObjects(t)
    \/ \E t \in Ticks : PollReply(t)
    \/ \E t \in Ticks : SetConnectionTrue(t)
    \/ \E t \in Ticks : PublishRecord(t)
    \/ \E t \in Ticks : SetConnectionFalse(t)

vars == <<orchVars, callVars>>

Spec == Init /\ [][Next]_vars

\* The orchestrator before onReady, for the specifications of single calls.
OrchIdle ==
    /\ initialized = FALSE
    /\ pollingInterval = "unset"
    /\ unloaded = FALSE
    /\ tick = [t \in Ticks |-> IdleTick]
    /\ objects = Undefined
    /\ inputs = Undefined
    /\ published = [value |-> "none", exchange |-> "none"]
    /\ ended = NoTickEnded

\* ------------------------------ one call of fetchStateValuesFromDevice
\* The device answers every send of the call with any of these blocks, or
\* the send fails.  fetch.log records what every send settled with.

SampleBytes == {0, 89, 90, 91, 117, 118, 119, 127, 128, 129, 144, 255}

FetchReplies ==
    {TransportError, Buf(0, 0, 0, 0, 0), Buf(1, 128, 0, 0, 0)}
    \cup {Buf(n, b0, 0, 0, 8400) :
            n \in {2, RecordLength - 1, RecordLength, RecordLength + 1},
            b0 \in {0, 127, 128, 129, 144}}

NotReturned == [kind |-> "running"]

InitFetch ==
    /\ OrchIdle
    /\ fetch = [attempt |-> 0, log |-> <<>>, state |-> "pending",
                data |-> Undefined, got |-> NotReturned]
    /\ header = NoCall
    /\ decode = NoCall
    /\ record = NoCall
    /\ send = NoCall

\* One pass of the loop of attemptFetch: a send settles.
FetchSend ==
    /\ fetch.state = "pending"
    /\ LoopRuns(fetch.attempt)
    /\ \E r \in FetchReplies :
        LET f == AttemptFetch(fetch.attempt, r) IN
        fetch' = [fetch EXCEPT !.attempt = f.attempt,
                               !.log = Append(fetch.log, r),
                               !.state = f.state,
                               !.data = f.data]
    /\ UNCHANGED <<orchVars, header, decode, record, send>>

\* The await of line 639 is over: fetchStateValuesFromDevice runs to its end.
FetchReturns ==
    /\ fetch.state \in {"resolved", "rejected"}
    /\ fetch.got = NotReturned
    /\ fetch' = [fetch EXCEPT !.got = fetchStateValuesFromDevice(fetch)]
    /\ UNCHANGED <<orchVars, header, decode, record, send>>

NextFetch == FetchSend \/ FetchReturns

SpecFetch == InitFetch /\ [][NextFetch]_vars

\* ------------------------------------- the header block of readDeviceInfo
\* Every block the retrying fetch can hand to line 453: 2 to MaxHeaderLen
\* bytes, any byte at offset 5, a sample of the bytes at offset 6.

HeaderBlocks ==
    {Buf(n, 0, b5, b6, 0) : n \in 2..MaxHeaderLen, b5 \in 0..255, b6 \in SampleBytes}

InitHeader ==
    /\ OrchIdle
    /\ fetch = NoCall
    /\ header \in {[state |-> "fetched", data |-> d, info |-> Undefined] :
                     d \in HeaderBlocks}
    /\ decode = NoCall
    /\ record = NoCall
    /\ send = NoCall

\* Lines 453-544 run on the fetched block.
HeaderRead ==
    /\ header.state = "fetched"
    /\ header' = [header EXCEPT !.state = "read", !.info = ReadHeader(header.data)]
    /\ UNCHANGED <<orchVars, fetch, decode, record, send>>

NextHeader == HeaderRead

SpecHeader == InitHeader /\ [][NextHeader]_vars

\* ----------------------------------------------- the value of an input word
\* Every 16-bit word byte2short can make of two bytes of the record.

Words == 0..65535

InitDecode ==
    /\ OrchIdle
    /\ fetch = NoCall
    /\ header = NoCall
    /\ decode \in {[state |-> "parsed", subValue |-> w, finalValue |-> Undefined,
                     unit |-> UndefinedString] : w \in Words}
    /\ record = NoCall
    /\ send = NoCall

\* The probe (lines 171-180) classifies the word, and lines 92-113 of a
\* poll run on it.
DecodeWord ==
    /\ decode.state = "parsed"
    /\ decode' = [decode EXCEPT !.state = "published",
                                !.finalValue = DecodeInput(decode.subValue),
                                !.unit = UnitOfWord(decode.subValue)]
    /\ UNCHANGED <<orchVars, fetch, header, record, send>>

NextDecode == DecodeWord

SpecDecode == InitDecode /\ [][NextDecode]_vars

\* ------------------------------------- the unit of an input over two reads
\* The word of an input in the probe's trial read and its word in a later
\* poll; the device may send any two.

\* Words of every unit code, with and without the sign bit.
UnitWords == {hi * 256 + 210 : hi \in {16 * n : n \in 0..15}}

InitUnits ==
    /\ OrchIdle
    /\ fetch = NoCall
    /\ header = NoCall
    /\ record = NoCall
    /\ send = NoCall
    /\ \E trial \in UnitWords, later \in UnitWords :
          decode = [state |-> "trial", trialValue |-> trial, subValue |-> later,
                    unit |-> UndefinedString, finalValue |-> Undefined]

\* Lines 171-180 and 329-342: the probe computes the unit from the word of
\* the trial read and declareObjects writes it to the input's object.
DeclareUnit ==
    /\ decode.state = "trial"
    /\ decode' = [decode EXCEPT !.state = "declared",
                                !.unit = UnitOfWord(decode.trialValue)]
    /\ UNCHANGED <<orchVars, fetch, header, record, send>>

\* Lines 92-118: a later poll publishes the value of the word it read.
PollWord ==
    /\ decode.state = "declared"
    /\ decode' = [decode EXCEPT !.state = "published",
                                !.finalValue = DecodeInput(decode.subValue)]
    /\ UNCHANGED <<orchVars, fetch, header, record, send>>

NextUnits == DeclareUnit \/ PollWord

SpecUnits == InitUnits /\ [][NextUnits]_vars

\* ------------------------------------------------- the decoding of a record
\* One 57-byte record as readBlock hands it to parseUvrRecord.

Bytes == 0..255

\* The record that is 0 everywhere but at the offsets of `bytes`.
RecordWith(bytes) ==
    [i \in 0..(RecordLength - 1) |-> IF i \in DOMAIN bytes THEN bytes[i] ELSE 0]

\* A record with the output word at offsets 33-34.
OutputRecord(lo, hi) == RecordWith(33 :> lo @@ 34 :> hi)

SpeedBytes == {0, 14, 30, 158, 255}

\* A record with the speed levels at offsets 35-38.
SpeedRecord(a, b, c, d) == RecordWith(35 :> a @@ 36 :> b @@ 37 :> c @@ 38 :> d)

WmzBytes == {0, 1, 2, 3, 252, 255}

CounterBytes == {0, 100, 128, 255}

EnergyBytes == {<<0, 0, 0, 0>>, <<5, 0, 1, 0>>, <<255, 255, 255, 255>>}

OtherPowerBytes == {<<0, 0, 0, 0>>, <<0, 100, 0, 0>>, <<255, 255, 255, 255>>}

\* The eight bytes of a counter: four of the power, four of the energy.
CounterBlock(b, p, e) ==
    (b :> p[1] @@ (b + 1) :> p[2] @@ (b + 2) :> p[3] @@ (b + 3) :> p[4] @@
     (b + 4) :> e[1] @@ (b + 5) :> e[2] @@ (b + 6) :> e[3] @@ (b + 7) :> e[4])

\* A record with the status byte at offset 39 and the two counters at
\* offsets 40-47 and 48-55.
CounterRecord(wmz, p1, e1, p2, e2) ==
    RecordWith((39 :> wmz) @@ CounterBlock(40, p1, e1) @@ CounterBlock(48, p2, e2))

ReadRecord(r) == [state |-> "read", response |-> r, uvrRecord |-> Undefined]

\* The records decoded: every output word; the speed levels over
\* SpeedBytes; the status bytes with the power bytes of counter 1 and of
\* counter 2 in turn over CounterBytes; both counters active with every
\* lowest and every highest power byte.
InitRecord ==
    /\ OrchIdle
    /\ fetch = NoCall
    /\ header = NoCall
    /\ decode = NoCall
    /\ send = NoCall
    /\ \/ \E lo \in Bytes, hi \in Bytes : record = ReadRecord(OutputRecord(lo, hi))
       \/ \E a \in SpeedBytes, b \in SpeedBytes, c \in SpeedBytes, d \in SpeedBytes :
             record = ReadRecord(SpeedRecord(a, b, c, d))
       \/ \E wmz \in WmzBytes, ll \in CounterBytes, lh \in CounterBytes,
             hl \in CounterBytes, hh \in CounterBytes :
             \E e \in EnergyBytes, p \in OtherPowerBytes :
                \/ record = ReadRecord(CounterRecord(wmz, <<ll, lh, hl, hh>>, e,
                                                     p, <<5, 0, 1, 0>>))
                \/ record = ReadRecord(CounterRecord(wmz, p, <<5, 0, 1, 0>>,
                                                     <<ll, lh, hl, hh>>, e))
       \/ \E ll \in Bytes, hh \in Bytes :
             /\ ll \in CounterBytes \/ hh \in CounterBytes
             /\ record = ReadRecord(CounterRecord(3, <<ll, 100, 0, hh>>,
                                                  <<0, 0, 0, 0>>, <<ll, 1, 2, hh>>,
                                                  <<0, 0, 0, 0>>))

\* Line 662: parseUvrRecord runs on the record.
ParseRecord ==
    /\ record.state = "read"
    /\ record' = [record EXCEPT !.state = "parsed",
                                !.uvrRecord = uvrRecord(record.response)]
    /\ UNCHANGED <<orchVars, fetch, header, decode, send>>

NextRecord == ParseRecord

SpecRecord == InitRecord /\ [][NextRecord]_vars

\* ------------------------------------------------- one call of sendCommand
\* The socket of the call, the events net.Socket emits on it and the
\* promise the call returns.  send.written is what was written to the
\* socket, each byte with whether shutdown had been requested by then;
\* send.events is the handlers that ran, in order.  onUnload may be called
\* while the call is under way.  A socket is "connecting" after connect(),
\* "open" once connected and "closed" after destroy() or once both ends
\* of the connection are shut; the event "close" follows every closing.

Commands ==
    {VERSION_REQUEST, HEADER_READ, FIRMWARE_REQUEST, MODE_REQUEST,
     READ_CURRENT_DATA}

Pending == [state |-> "pending"]

\* resolve(value) and reject(error): only the first of them settles.
Resolve(promise, value) ==
    IF promise.state = "pending"
    THEN [state |-> "resolved", value |-> value]
    ELSE promise

\* A variant in which a later rejection replaces the outcome.
Reject_overrides(promise, message) ==
    [state |-> "rejected", value |-> [kind |-> "error", message |-> message]]

Reject(promise, message) ==
    IF promise.state = "pending"
    THEN [state |-> "rejected", value |-> [kind |-> "error", message |-> message]]
    ELSE promise

\* The errors a socket reports while connecting and once connected.
ConnectErrors == {"ECONNREFUSED", "EHOSTUNREACH", "ETIMEDOUT"}

SocketErrors == {"ECONNRESET", "EPIPE"}

\* The orchestrator after onReady, around a call made by a run of the
\* callback: the timer is armed.
OrchArmed ==
    /\ initialized = FALSE
    /\ pollingInterval = "armed"
    /\ unloaded = FALSE
    /\ tick = [t \in Ticks |-> IdleTick]
    /\ objects = Undefined
    /\ inputs = Undefined
    /\ published = [value |-> "none", exchange |-> "none"]
    /\ ended = NoTickEnded

InitSend ==
    /\ OrchArmed
    /\ fetch = NoCall
    /\ header = NoCall
    /\ decode = NoCall
    /\ record = NoCall
    /\ \E command \in Commands :
          send = [command |-> command, state |-> "sleeping", socket |-> "none",
                  written |-> <<>>, events |-> <<>>, closeEvent |-> "none",
                  promise |-> Pending, returned |-> NotReturned]

\* Lines 401-423: the sleep is over; the socket is created, connect() is
\* called and the three handlers are registered.
SleepEnds ==
    /\ send.state = "sleeping"
    /\ send' = [send EXCEPT !.state = "waiting", !.socket = "connecting"]
    /\ UNCHANGED <<orchVars, fetch, header, decode, record>>

\* Lines 407-409: the connection is made and the command byte written.
OnConnect ==
    /\ send.socket = "connecting"
    /\ send' = [send EXCEPT !.socket = "open",
                            !.written = Append(@, [byte |-> send.command,
                                                   unloaded |-> unloaded])]
    /\ UNCHANGED <<orchVars, fetch, header, decode, record>>

\* A variant of the data handler that forgets client.destroy().
OnData_keepsSocket ==
    /\ send.socket = "open"
    /\ \E data \in sendCommand(send.command) \ {TransportError} :
          send' = [send EXCEPT !.events = Append(@, [event |-> "data",
                                                        value |-> data]),
                              !.promise = Resolve(@, data)]
    /\ UNCHANGED <<orchVars, fetch, header, decode, record>>

\* Lines 411-414: the device sends a block; client.destroy(); resolve(data)
OnData ==
    /\ send.socket = "open"
    /\ \E data \in sendCommand(send.command) \ {TransportError} :
          send' = [send EXCEPT !.socket = "closed",
                              !.closeEvent = "due",
                              !.events = Append(@, [event |-> "data",
                                                    value |-> data]),
                              !.promise = Resolve(@, data)]
    /\ UNCHANGED <<orchVars, fetch, header, decode, record>>

\* Lines 416-419: the socket reports an error, while connecting or once
\* connected; client.destroy(); reject(err)
OnError ==
    /\ send.socket \in {"connecting", "open"}
    /\ \E err \in IF send.socket = "connecting" THEN ConnectErrors
                   ELSE SocketErrors :
          send' = [send EXCEPT !.socket = "closed",
                              !.closeEvent = "due",
                              !.events = Append(@, [event |-> "error",
                                                    value |-> err]),
                              !.promise = Reject(@, err)]
    /\ UNCHANGED <<orchVars, fetch, header, decode, record>>

\* The device closes the connection without sending a block: the socket
\* shuts its own end too (allowHalfOpen is off) and is closed.
PeerCloses ==
    /\ send.socket = "open"
    /\ send' = [send EXCEPT !.socket = "closed", !.closeEvent = "due"]
    /\ UNCHANGED <<orchVars, fetch, header, decode, record>>

\* Lines 421-423: the event "close" of the closed socket;
\* reject(new Error("Connection closed unexpectedly"))
OnClose ==
    /\ send.closeEvent = "due"
    /\ send' = [send EXCEPT !.closeEvent = "emitted",
                            !.events = Append(@, [event |-> "close",
                                                  value |-> Null]),
                            !.promise = Reject(@, "Connection closed unexpectedly")]
    /\ UNCHANGED <<orchVars, fetch, header, decode, record>>

\* The caller's await of the settled promise resumes: the call has
\* returned its data or thrown its error.
SendReturns ==
    /\ send.promise.state # "pending"
    /\ send.returned = NotReturned
    /\ send' = [send EXCEPT !.state = "returned",
                            !.returned = IF send.promise.state = "resolved"
                                         THEN Return(send.promise.value)
                                         ELSE Throw(send.promise.value)]
    /\ UNCHANGED <<orchVars, fetch, header, decode, record>>

NextSend ==
    \/ onUnload
    \/ SleepEnds
    \/ OnConnect
    \/ OnData
    \/ OnError
    \/ PeerCloses
    \/ OnClose
    \/ SendReturns

SpecSend == InitSend /\ [][NextSend]_vars

\* A connection attempt ends: the connection is made, or the socket
\* reports the error of the attempt (the operating system gives up).
ConnectSettles == OnConnect \/ (send.socket = "connecting" /\ OnError)

\* The call under the scheduling the runtime gives it: the sleep timer
\* fires, a connection attempt ends, the close event of a closed socket is
\* emitted and the caller's await resumes.  Nothing makes the device send,
\* fail or close once the connection stands: the socket has no timeout.
SpecSendFair ==
    /\ SpecSend
    /\ WF_vars(SleepEnds)
    /\ WF_vars(ConnectSettles)
    /\ WF_vars(OnClose)
    /\ WF_vars(SendReturns)

\* ====================================================================
\* The claims
\* ====================================================================

\* The runs of the timer callback that have started and not finished.
InFlight == {t \in Ticks : tick[t].pc # "idle"}

\* C1: ticks never overlap: no run of the timer callback starts its probe
\* or fetch while the work of an earlier run is still outstanding, so at
\* most one run is in flight at any time.
C1_TicksNeverOverlap == Cardinality(InFlight) <= 1

\* C2: the state starts Uninitialized, and Initialized is absorbing: no
\* step, whatever the outcome of a tick, takes this.initialized from true
\* back to false, and no run starts the probe while it is true.
C2_InitializedAbsorbing ==
    /\ ~initialized
    /\ [][/\ initialized => initialized'
          /\ \A t \in Ticks :
                (tick[t].pc # "version" /\ tick'[t].pc = "version")
                    => ~initialized]_vars

\* C2 witness: a poll has failed and its run has ended with the connection
\* status false, and the state is still Initialized.
C2_Witness ==
    /\ initialized
    /\ ended.poll = "fail"
    /\ ended.lastConn = "false"

\* C3: a run whose poll fetch failed ends with the state Initialized and
\* with false as the connection status it published last; a run whose probe
\* failed ends with the state Uninitialized and with false as the
\* connection status it published last.
C3_FailedTickOutcome ==
    /\ ended.poll = "fail" =>
          ended.initialized /\ ended.lastConn = "false"
    /\ ended.probe = "fail" =>
          ~ended.initialized /\ ended.lastConn = "false"

\* C4: every publication of info.connection reflects the exchange that
\* preceded it in the same run: true only after a probe or a current-data
\* fetch and decode that succeeded, false after one that failed.
C4_ConnectionReflectsExchange ==
    /\ published.value = "true" => published.exchange = "ok"
    /\ published.value = "false" => published.exchange = "fail"

\* A send that failed, for the retrying fetch: a transport error, or a
\* response of length 0 or 1.
FailedSend(r) == r.kind = "error" \/ r.len <= 1

\* C5: the retrying fetch never sends more than 5 times; it stays pending
\* only while every send so far failed; it resolves with the first
\* response longer than 1 byte, which fewer than 5 failures precede; it is
\* rejected exactly after 5 failed sends.
C5_RetryingFetcher ==
    fetch.state \in {"pending", "resolved", "rejected"} =>
        LET n == Len(fetch.log) IN
        /\ n <= 5
        /\ fetch.attempt = n
        /\ fetch.state = "pending" =>
              n < 5 /\ \A i \in 1..n : FailedSend(fetch.log[i])
        /\ fetch.state = "resolved" =>
              /\ n >= 1
              /\ ~FailedSend(fetch.log[n])
              /\ fetch.data = fetch.log[n]
              /\ \A i \in 1..(n - 1) : FailedSend(fetch.log[i])
        /\ fetch.state = "rejected" =>
              n = 5 /\ \A i \in 1..n : FailedSend(fetch.log[i])

\* C5 witness: four failed sends, then the fifth send brought a valid
\* response and the fetch resolved with it.
C5_Witness ==
    /\ fetch.state = "resolved"
    /\ Len(fetch.log) = 5
    /\ fetch.data.len = 57

\* The name of a device type byte, as the specification gives it.
NameOfType(b) == IF b = 90 THEN "UVR61-3" ELSE IF b = 118 THEN "UVR1611" ELSE "Unknown"

\* C6: the length of the header block decides the mode: 13 bytes give 1DL
\* with the primary type from offset 5, 14 bytes give 2DL with the primary
\* type from offset 5 and the secondary type from offset 6, 21 bytes give
\* CAN; every other length ends in the unknown-length error; a secondary
\* type is present in 2DL mode only.
C6_HeaderLengthToMode ==
    header.state = "read" =>
        LET d == header.data
            r == header.info
        IN  /\ d.len \notin {13, 14, 21} <=> r.kind = "throw"
            /\ r.kind = "throw" => r.error = "Unknown data length"
            /\ r.kind = "return" =>
                  /\ d.len = 13 <=> r.value.uvr_mode = "1DL"
                  /\ d.len = 14 <=> r.value.uvr_mode = "2DL"
                  /\ d.len = 21 <=> r.value.uvr_mode = "CAN"
                  /\ d.len \in {13, 14} => r.value.uvr_type = NameOfType(d.b5)
                  /\ d.len = 14 => r.value.uvr2_type = NameOfType(d.b6)
                  /\ r.value.uvr2_type # UndefinedString <=> r.value.uvr_mode = "2DL"

\* C6 witness: a 14-byte header has been read as 2DL with both types.
C6_Witness ==
    /\ header.state = "read"
    /\ header.data.len = 14
    /\ header.info.kind = "return"
    /\ header.info.value.uvr_type = "UVR1611"
    /\ header.info.value.uvr2_type = "UVR61-3"

\* C7: a 21-byte header yields the primary type UVR1611 whatever its
\* bytes; in 13- and 14-byte headers each type byte maps 0x5A to UVR61-3,
\* 0x76 to UVR1611 and every other value to Unknown.
C7_TypeMapping ==
    (header.state = "read" /\ header.info.kind = "return") =>
        LET d == header.data
            v == header.info.value
        IN  /\ d.len = 21 => v.uvr_type = "UVR1611"
            /\ d.len \in {13, 14} =>
                  /\ v.uvr_type = "UVR61-3" <=> d.b5 = 90
                  /\ v.uvr_type = "UVR1611" <=> d.b5 = 118
                  /\ v.uvr_type = "Unknown" <=> d.b5 \notin {90, 118}
            /\ d.len = 14 =>
                  /\ v.uvr2_type = "UVR61-3" <=> d.b6 = 90
                  /\ v.uvr2_type = "UVR1611" <=> d.b6 = 118
                  /\ v.uvr2_type = "Unknown" <=> d.b6 \notin {90, 118}

\* C7 witness: a 21-byte header with 0x5A at offset 5 has been read as
\* UVR1611.
C7_Witness ==
    /\ header.state = "read"
    /\ header.data.len = 21
    /\ header.data.b5 = 90
    /\ header.info.value.uvr_type = "UVR1611"

\* C8: the probe is all-or-nothing.  A run whose probe failed in any step
\* holds the failed configuration, without device info and without units;
\* success is reported only if every step including the trial decode
\* succeeded; only a run whose probe succeeded declares objects in the
\* store or sets this.initialized.
C8_ProbeAllOrNothing ==
    /\ [](\A t \in Ticks :
            /\ (tick[t].pc = "setConnection" /\ tick[t].probe = "fail") =>
                  /\ tick[t].systemConfiguration.success = FALSE
                  /\ tick[t].systemConfiguration.deviceInfo = EmptyObject
                  /\ tick[t].systemConfiguration.units = EmptyObject
            /\ (tick[t].pc = "setConnection" /\ tick[t].probe = "ok") =>
                  /\ tick[t].systemConfiguration.success = TRUE
                  /\ tick[t].systemConfiguration.deviceInfo # EmptyObject
                  /\ tick[t].systemConfiguration.units # EmptyObject
            /\ tick[t].pc = "declare" => tick[t].probe = "ok")
    /\ [][(objects' # objects \/ initialized' # initialized) =>
            \E t \in Ticks :
                /\ tick[t].pc = "declare"
                /\ tick[t].probe = "ok"
                /\ tick'[t].pc # "declare"]_vars

\* C8 witness: a run whose probe failed has ended; nothing is declared in
\* the store, the state is Uninitialized, the connection status is false.
C8_Witness ==
    /\ ended.probe = "fail"
    /\ ended.lastConn = "false"
    /\ objects = Undefined
    /\ ~initialized

\* C9: fetchStateValuesFromDevice fails with an error to its caller when
\* the retrying fetch is exhausted, when byte 0 of the block is not 0x80
\* and when the block has fewer than 57 bytes; otherwise it returns the
\* record decoded from the first 57 bytes.
C9_FetchFailsWithError ==
    (fetch.state \in {"resolved", "rejected"} /\ fetch.got # NotReturned) =>
        LET bad == \/ fetch.state = "rejected"
                   \/ fetch.data.b0 # 128
                   \/ fetch.data.len < 57
        IN  /\ bad => fetch.got.kind = "throw"
            /\ ~bad => /\ fetch.got.kind = "return"
                       /\ fetch.got.value = [inputs |-> [S01 |-> fetch.data.in1]]

\* C10: with raw12 the low byte plus the low nibble of the high byte, the
\* value decoded from a 16-bit input word is raw12 if bit 7 of the high
\* byte is clear and raw12 - 4096 if it is set.
C10_SignDecode ==
    decode.state = "published" =>
        LET hi == decode.subValue \div 256
            lo == decode.subValue % 256
            raw12 == lo + 256 * (hi % 16)
        IN  /\ raw12 \in 0..4095
            /\ hi < 128 => decode.finalValue.val = raw12
            /\ hi >= 128 => decode.finalValue.val = raw12 - 4096

\* C10 witness: the word 0xAFFF (sign set, raw12 = 4095) has been decoded
\* to -1.
C10_Witness ==
    /\ decode.state = "published"
    /\ decode.subValue = 45055
    /\ decode.finalValue.val = 0 - 1

\* The unit the protocol gives to a unit code, the number in bits 4-6 of
\* the high byte.
NameOfUnit(code) ==
    CASE code = 0 -> "unused"
      [] code = 1 -> "digital"
      [] code = 2 -> "C"
      [] code = 3 -> "l/h"
      [] code = 6 -> "W/m2"
      [] code = 7 -> "C (room sensor)"
      [] OTHER -> "unknown"

\* C11: the unit of an input is a function of bits 4-6 of the high byte
\* only (0 unused, 1 digital, 2 Celsius, 3 litres per hour, 6 watts per
\* square metre, 7 room sensor, else unknown), whatever the sign bit and
\* the magnitude, and the probe and a poll give the same word the same
\* unit.
C11_UnitOfBits4to6 ==
    decode.state = "published" =>
        LET code == (decode.subValue \div 4096) % 8
        IN  /\ decode.unit = NameOfUnit(code)
            /\ decode.finalValue.unit = NameOfUnit(code)
            /\ decode.finalValue.unit = decode.unit

\* C11 witness: the word 0xF123 (sign set, code 7) has been classified as
\* a room sensor by the probe and by the poll.
C11_Witness ==
    /\ decode.state = "published"
    /\ decode.subValue = 61731
    /\ decode.unit = "C (room sensor)"
    /\ decode.finalValue.unit = "C (room sensor)"

\* C12: the published value is the sign-resolved value divided by 10
\* exactly when the unit code is 2 (Celsius); for every other code, the
\* room sensor and the unknown codes included, it is the sign-resolved
\* integer itself.
C12_CelsiusScaledOnly ==
    decode.state = "published" =>
        LET hi == decode.subValue \div 256
            raw12 == decode.subValue % 4096
            resolved == IF hi >= 128 THEN raw12 - 4096 ELSE raw12
            code == (hi \div 16) % 8
        IN  /\ decode.finalValue.val = resolved
            /\ code = 2 => decode.finalValue.div = 10
            /\ code # 2 => decode.finalValue.div = 1

\* C12 witness: the room-sensor word 0x70D2 has been published as 210,
\* unscaled.
C12_Witness ==
    /\ decode.state = "published"
    /\ decode.subValue = 28882
    /\ decode.finalValue = [val |-> 210, div |-> 1, unit |-> "C (room sensor)"]

\* Bit k of the number x.
BitSet(x, k) == (x \div (2 ^ k)) % 2 = 1

\* C13: the outputs are decoded from the 16-bit little-endian word at
\* bytes 33-34: output A(k+1) is "ON" iff bit k of the word is set, for
\* k in 0..12, and bits 13-15 of the word change no field of the record.
C13_OutputBits ==
    record.state = "parsed" =>
        LET word == record.response[33] + 256 * record.response[34]
            low13 == [record.response EXCEPT ![34] = @ % 32]
        IN  /\ \A k \in 0..12 :
                  /\ BitSet(word, k) => record.uvrRecord.outputs[k + 1] = "ON"
                  /\ ~BitSet(word, k) => record.uvrRecord.outputs[k + 1] = "OFF"
            /\ DOMAIN record.uvrRecord.outputs = 1..13
            /\ uvrRecord(low13) = record.uvrRecord

\* C13 witness: the word 0xE005 has been decoded: A01 and A03 are ON and
\* every other output is OFF, the three top bits set notwithstanding.
C13_Witness ==
    /\ record.state = "parsed"
    /\ record.response[33] = 5
    /\ record.response[34] = 224
    /\ record.uvrRecord.outputs =
          [k \in 1..13 |-> IF k \in {1, 3} THEN "ON" ELSE "OFF"]

\* The speed bytes of the record in hand.
SpeedBytesOfRecord == <<record.response[35], record.response[36],
                        record.response[37], record.response[38]>>

\* C14 as stated: with the speed bytes [30,14,0,158] at offsets 35-38 the
\* bytes are assigned verbatim to DzA1, DzA2, DzA6, DzA7 and the decoded
\* DzA2 equals 30.
C14_SpeedDzA2Is30 ==
    (record.state = "parsed" /\ SpeedBytesOfRecord = <<30, 14, 0, 158>>) =>
        /\ record.uvrRecord.speed_levels =
              [DzA1 |-> 30, DzA2 |-> 14, DzA6 |-> 0, DzA7 |-> 158]
        /\ record.uvrRecord.speed_levels.DzA2 = 30

\* C14 amended: the bytes at offsets 35-38 are assigned verbatim and
\* unscaled to DzA1, DzA2, DzA6, DzA7 in this order; with the speed bytes
\* [30,14,0,158] the decoded DzA1 equals 30 and the decoded DzA2 equals 14.
C14_SpeedVerbatim ==
    record.state = "parsed" =>
        /\ record.uvrRecord.speed_levels.DzA1 = record.response[35]
        /\ record.uvrRecord.speed_levels.DzA2 = record.response[36]
        /\ record.uvrRecord.speed_levels.DzA6 = record.response[37]
        /\ record.uvrRecord.speed_levels.DzA7 = record.response[38]
        /\ SpeedBytesOfRecord = <<30, 14, 0, 158>> =>
              /\ record.uvrRecord.speed_levels.DzA1 = 30
              /\ record.uvrRecord.speed_levels.DzA2 = 14

\* C14 witness: the record with the speed bytes [30,14,0,158] has been
\* decoded, and DzA2 is 14.
C14_Witness ==
    /\ record.state = "parsed"
    /\ SpeedBytesOfRecord = <<30, 14, 0, 158>>
    /\ record.uvrRecord.speed_levels.DzA2 = 14

\* Offset of the bytes of counter k.
CounterOffset(k) == IF k = 1 THEN 40 ELSE 48

\* The record with nothing but the status bit and the eight bytes of
\* counter k.
OnlyCounter(response, k) ==
    [i \in DOMAIN response |->
        IF i = 39 THEN (IF BitSet(response[39], k - 1) THEN 2 ^ (k - 1) ELSE 0)
        ELSE IF i \in CounterOffset(k)..(CounterOffset(k) + 7) THEN response[i]
        ELSE 0]

\* C15: for each energy counter k, wmz-k is active iff bit k-1 of byte 39
\* is set; when the bit is clear the current power and the total energy
\* of counter k are both 0 whatever its eight bytes hold; the fields of
\* counter k depend on its status bit and its own eight bytes only.
C15_CounterStatus ==
    record.state = "parsed" =>
        \A k \in 1..2 :
            LET active == BitSet(record.response[39], k - 1)
                counter == record.uvrRecord.thermal_energy_counters[k]
            IN  /\ active <=>
                     record.uvrRecord.thermal_energy_counters_status[k] = "active"
                /\ ~active <=>
                     record.uvrRecord.thermal_energy_counters_status[k] = "inactive"
                /\ ~active =>
                      /\ counter.current_heat_power = [whole |-> 0, num |-> 0, den |-> 1]
                      /\ counter.total_heat_energy = [whole |-> 0, num |-> 0, den |-> 1]
                /\ counter = uvrRecord(OnlyCounter(record.response, k))
                                 .thermal_energy_counters[k]

\* C15 witness: with the status byte 0x01, counter 1 is active and holds a
\* power, and counter 2 is inactive and holds 0 although its bytes are all
\* 0xFF.
C15_Witness ==
    /\ record.state = "parsed"
    /\ record.response[39] = 1
    /\ \A i \in 48..51 : record.response[i] = 255
    /\ record.uvrRecord.thermal_energy_counters_status[1] = "active"
    /\ record.uvrRecord.thermal_energy_counters_status[2] = "inactive"
    /\ record.uvrRecord.thermal_energy_counters[1].current_heat_power.whole > 0
    /\ record.uvrRecord.thermal_energy_counters[2].current_heat_power.whole = 0
    /\ record.uvrRecord.thermal_energy_counters[2].current_heat_power.num = 0

\* C16: for an active counter with the bytes ll, lh, hl, hh, and with
\* magnitude = lh + 256 * hl + 65536 * hh, 25600 times the current power
\* equals 2560 * magnitude + 10 * ll.  With the power w + n / d this reads
\* 25600 * n = d * (2560 * (magnitude - 10 * w) + 10 * ll) with w the
\* whole tenths of the magnitude, which keeps the numbers small; the bytes
\* 0, 100, 0, 0 give the power 10.
C16_CurrentPower ==
    record.state = "parsed" =>
        \A k \in 1..2 :
            LET b == CounterOffset(k)
                ll == record.response[b]
                magnitude == record.response[b + 1] + 256 * record.response[b + 2]
                             + 65536 * record.response[b + 3]
                power == record.uvrRecord.thermal_energy_counters[k].current_heat_power
            IN  BitSet(record.response[39], k - 1) =>
                  /\ power.den > 0
                  /\ magnitude - 10 * power.whole \in 0..9
                  /\ 25600 * power.num =
                        power.den * (2560 * (magnitude - 10 * power.whole) + 10 * ll)
                  /\ (ll = 0 /\ magnitude = 100) =>
                        (power.whole = 10 /\ power.num = 0)

\* C16 witness: counter 1 is active, its bytes are 0, 100, 0, 0, and its
\* current power is 10.
C16_Witness ==
    /\ record.state = "parsed"
    /\ BitSet(record.response[39], 0)
    /\ <<record.response[40], record.response[41], record.response[42],
         record.response[43]>> = <<0, 100, 0, 0>>
    /\ record.uvrRecord.thermal_energy_counters[1].current_heat_power.whole = 10
    /\ record.uvrRecord.thermal_energy_counters[1].current_heat_power.num = 0

\* C17: for every byte of an active counter the branch of the sign check
\* (hh > 32767) is not taken, and the decoded current power is not
\* negative.
C17_SignCheckDead ==
    record.state = "parsed" =>
        \A k \in 1..2 :
            LET counter == record.uvrRecord.thermal_energy_counters[k]
            IN  /\ ~counter.negated
                /\ counter.current_heat_power.whole >= 0
                /\ counter.current_heat_power.num >= 0
                /\ counter.current_heat_power.den > 0

\* C17 witness: an active counter whose highest byte is 0xFF has been
\* decoded to a positive power, the branch not taken.
C17_Witness ==
    /\ record.state = "parsed"
    /\ BitSet(record.response[39], 0)
    /\ record.response[43] = 255
    /\ ~record.uvrRecord.thermal_energy_counters[1].negated
    /\ record.uvrRecord.thermal_energy_counters[1].current_heat_power.whole > 0

\* A run of the callback ends in this step.
TickEnds == \E t \in Ticks : tick[t].pc # "idle" /\ tick'[t].pc = "idle"

\* A run of the callback starts in this step.
TickStarts == \E t \in Ticks : tick[t].pc = "idle" /\ tick'[t].pc # "idle"

C20_NoTickAfterUnload ==
    /\ [](unloaded => pollingInterval # "armed")
    /\ [][unloaded => ~TickStarts]_vars
    /\ [][unloaded => unloaded']_vars

\* C20 witness: onUnload was called while a run was in flight and the
\* state was Initialized; the timer is cleared.
C20_Witness ==
    /\ unloaded
    /\ pollingInterval = "cleared"
    /\ initialized
    /\ InFlight # {}

\* C19: wherever a call of sendCommand has settled or returned, the
\* socket the call opened is closed, on the data path, the error path and
\* the peer-close path alike; a socket exists only after the call began.
C19_SocketClosedOnReturn ==
    /\ (send # NoCall /\ send.promise.state # "pending") => send.socket = "closed"
    /\ (send # NoCall /\ send.returned # NotReturned) => send.socket = "closed"
    /\ (send # NoCall /\ send.state = "sleeping") => send.socket = "none"

\* C19 witness: a call has returned the block the device sent, and its
\* socket is closed.
C19_Witness ==
    /\ send # NoCall
    /\ send.returned # NotReturned
    /\ send.returned.kind = "return"
    /\ send.returned.value.kind = "data"
    /\ send.socket = "closed"

\* C21: once shutdown is requested while a call of sendCommand is under
\* way, the timer of its quiescence wait is cleared and its socket is
\* closed, and no command is written to the device after onUnload.
C21_UnloadStopsTick ==
    (unloaded /\ send # NoCall) =>
        /\ send.state # "sleeping"
        /\ send.socket \notin {"connecting", "open"}
        /\ \A i \in 1..Len(send.written) : ~send.written[i].unloaded

\* C22: over the lifetime of the process the device info and the units
\* are computed and declared once: at most one probe succeeds and runs
\* declareObjects to its end.
C22_DeclaredOnce == objects # Undefined => objects.times <= 1

\* C23: for every poll after the probe, the unit that governs the
\* published value of an input is the unit declared for it at the probe:
\* the value is divided by 10 iff the declared unit is Celsius, whatever
\* the unit bits of the later word.
C23_ScalingFollowsDeclaredUnit ==
    decode.state = "published" =>
        /\ decode.finalValue.unit = decode.unit
        /\ decode.finalValue.div = 10 <=> decode.unit = "C"

\* The command a run is sending, or waiting to send again, at each await
\* of the probe.
ProbeSteps == <<"version", "header", "firmware", "mode", "trial">>

\* C24: within one probe the commands go out in the order VERSION, HEADER,
\* FIRMWARE, MODE, CURRENT_DATA: a step is entered only from the step
\* before it, a failed step ends the probe as failed, VERSION, FIRMWARE and
\* MODE are sent once and HEADER and CURRENT_DATA at most 5 times each.
C24_ProbeCommandOrder ==
    /\ [](\A t \in Ticks :
            tick[t].pc \in {"header", "trial"} => tick[t].attempt + 1 <= 5)
    /\ [][\A t \in Ticks :
            LET pc == tick[t].pc
                next == tick'[t].pc
            IN  /\ (next = "version" /\ pc # next) => pc = "idle"
                /\ \A i \in 2..5 :
                      (next = ProbeSteps[i] /\ pc # next) => pc = ProbeSteps[i - 1]
                /\ (pc \in {"version", "firmware", "mode"} /\ tick'[t] # tick[t])
                      => next # pc
                /\ (pc \in {"header", "trial"} /\ next = pc /\ tick'[t] # tick[t])
                      => tick'[t].attempt = tick[t].attempt + 1
                /\ (pc \in {"version", "header", "firmware", "mode"}
                    /\ next \notin {pc, "header", "firmware", "mode", "trial"})
                      => (next = "setConnection" /\ tick'[t].probe = "fail")]_vars

\* C24 witness: a probe has gone through all five steps, its trial read
\* answered on the fifth send.
C24_Witness ==
    /\ tick[1].pc = "setConnection"
    /\ tick[1].probe = "ok"
    /\ tick[1].attempt = 5

\* C25 as stated: each run of the callback does one of two things: a run
\* that starts Uninitialized runs the probe and no poll fetch, a run that
\* starts Initialized runs the poll fetch only.
C25_ProbeOrPoll ==
    /\ ended.probe # "none" => ended.poll = "none"
    /\ \A t \in Ticks : tick[t].probe # "none" => tick[t].poll = "none"

\* The declarations that ran to their end so far.
TimesDeclared(o) == IF o = Undefined THEN 0 ELSE o.times

\* C25 amended: a run starts with the probe iff the state is
\* Uninitialized; the run whose probe succeeded has published the status
\* true, declares, sets Initialized and goes on to the poll fetch in the
\* same run; a run that started Initialized runs the poll only, never a
\* probe step.
C25_ProbeThenPoll ==
    [][\A t \in Ticks :
        LET pc == tick[t].pc
            next == tick'[t].pc
        IN  /\ (pc = "idle" /\ next # "idle") =>
                  next = (IF initialized THEN "poll" ELSE "version")
            /\ (pc = "declare" /\ next # pc
                /\ TimesDeclared(objects') > TimesDeclared(objects)) =>
                  /\ tick[t].probe = "ok"
                  /\ tick[t].lastConn = "true"
                  /\ initialized'
                  /\ next = "poll"
            /\ (tick[t].probe = "none"
                /\ pc \in {"poll", "setConnectionTrue", "publish",
                           "setConnectionFalse"}) =>
                  /\ tick'[t].probe = "none"
                  /\ next \in {"poll", "setConnectionTrue", "publish",
                               "setConnectionFalse", "idle"}]_vars

\* C25 witness: a run has ended that probed with success and then polled
\* with success.
C25_Witness ==
    /\ ended.probe = "ok"
    /\ ended.poll = "ok"
    /\ ended.lastConn = "true"
    /\ initialized

\* The runs that are inside a call of sendCommand: in its quiescence wait
\* or in its exchange with the device.
Sending ==
    {t \in Ticks : tick[t].pc \in {"version", "header", "firmware", "mode",
                                   "trial", "poll"}}

\* C26: commands to the device are serialized: at no time are two calls
\* of sendCommand, and so two exchanges with the device, under way at once.
C26_CommandsSerialized == Cardinality(Sending) <= 1

\* The outcome the first handler that ran asks for.
OutcomeOf(e) ==
    CASE e.event = "data" -> [state |-> "resolved", value |-> e.value]
      [] e.event = "error" ->
            [state |-> "rejected",
             value |-> [kind |-> "error", message |-> e.value]]
      [] e.event = "close" ->
            [state |-> "rejected",
             value |-> [kind |-> "error",
                        message |-> "Connection closed unexpectedly"]]

\* C27: a call of sendCommand settles once, with the outcome of the first
\* socket event: data first resolves with that chunk and the close event
\* that follows does not change it; an error or a close before any data
\* rejects; at most one byte is written and at most one chunk consumed;
\* the caller gets the outcome the promise settled with.
C27_SettlesOnceWithFirstEvent ==
    /\ [](send # NoCall =>
            /\ Len(send.written) <= 1
            /\ \A i \in 1..Len(send.written) : send.written[i].byte = send.command
            /\ Cardinality({i \in 1..Len(send.events) :
                              send.events[i].event = "data"}) <= 1
            /\ send.events = <<>> => send.promise = Pending
            /\ send.events # <<>> => send.promise = OutcomeOf(send.events[1])
            /\ send.returned # NotReturned =>
                  /\ send.promise.state = "resolved" =>
                        send.returned = Return(send.promise.value)
                  /\ send.promise.state = "rejected" =>
                        send.returned = Throw(send.promise.value))
    /\ [][(send # NoCall /\ send.promise # Pending) =>
             send'.promise = send.promise]_vars

\* C27 witness: the data handler ran, then the close handler; the call
\* has returned the chunk.
C27_Witness ==
    /\ send # NoCall
    /\ Len(send.events) = 2
    /\ send.events[1].event = "data"
    /\ send.events[2].event = "close"
    /\ send.promise.state = "resolved"
    /\ send.returned = Return(send.events[1].value)

C29_UninitializedEndsFalse ==
    /\ initialized => (objects # Undefined /\ objects.complete)
    /\ (ended # NoTickEnded /\ ~ended.initialized) => ended.lastConn = "false"

\* C30: every call of sendCommand eventually returns data or fails,
\* whatever the device does, so the run that awaits it goes on to publish
\* its connection status.
C30_SendEventuallyReturns == <>(send.returned # NotReturned)

====
